---- MODULE Spec2Model ----
(***************************************************************************)
(* Model of src/src/prep.py: normalize_sidra_table (SIDRA raw table ->     *)
(* tidy table) and build_panel (PIB x POP x AREA panel per municipality    *)
(* and year).                                                              *)
(*                                                                         *)
(* Text is modelled character by character (a Python str is a sequence of  *)
(* one-character strings), so that _norm, the substring tests of _find_col *)
(* and the numeric parsing of cells are computed, not assumed.            *)
(* A float is modelled as an exact rational n/d in lowest terms (IEEE      *)
(* rounding is not modelled); a missing value (NaN, pd.NA, None) is NA.    *)
(***************************************************************************)
EXTENDS Integers, Sequences, FiniteSets, TLC

VARIABLES
    args,     \* the arguments of the call
    pc,       \* where the call stands: "call", then the steps of build_panel, "done"
    locals,   \* the local frames of build_panel: mun, pib, pop, area, area_agg
    ret       \* what the call returned or raised

vars == <<args, pc, locals, ret>>

(***************************************************************************)
(* Generic helpers                                                         *)
(***************************************************************************)
SetMin(S) == CHOOSE x \in S : \A y \in S : x <= y

SetMax(S) == CHOOSE x \in S : \A y \in S : x >= y

Abs(n) == IF n < 0 THEN -n ELSE n

RECURSIVE GCD(_, _)
GCD(a, b) == IF b = 0 THEN a ELSE GCD(b, a % b)

RECURSIVE Pow10(_)
Pow10(k) == IF k = 0 THEN 1 ELSE 10 * Pow10(k - 1)

\* a function on 1..n as the tuple it is (TLC then holds its elements
\* instead of recomputing one at every application)
AsTuple(f) == f \o <<>>

\* the positions of the set S in increasing order
Positions(S) ==
    SelectSeq([i \in 1..SetMax(S \cup {0}) |-> i], LAMBDA i : i \in S)

Range(s) == {s[i] : i \in 1..Len(s)}

(***************************************************************************)
(* Cell values.  Every cell is a record of the same shape:                 *)
(*   k = "str"  text s                                                     *)
(*   k = "num"  the number n/d (d > 0, lowest terms)                       *)
(*   k = "inf"  +inf (n = 1) or -inf (n = -1)                              *)
(*   k = "na"   missing (NaN / pd.NA)                                      *)
(***************************************************************************)
Str(s) == [k |-> "str", n |-> 0, d |-> 1, s |-> s]

NA == [k |-> "na", n |-> 0, d |-> 1, s |-> <<>>]

Inf(sign) == [k |-> "inf", n |-> sign, d |-> 1, s |-> <<>>]

Num(n, d) ==
    LET g == GCD(Abs(n), Abs(d))
        sg == IF d < 0 THEN -1 ELSE 1
    IN  [k |-> "num", n |-> sg * (n \div g), d |-> sg * (d \div g), s |-> <<>>]

IntVal(n) == Num(n, 1)

\* Series.notna() on one element
notna(v) == v.k # "na"

\* float comparison a < b (False when either side is missing, as in numpy)
NumLess(a, b) ==
    /\ a.k \in {"num", "inf"}
    /\ b.k \in {"num", "inf"}
    /\ IF a.k = "inf" THEN a.n = -1 /\ ~(b.k = "inf" /\ b.n = -1)
       ELSE IF b.k = "inf" THEN b.n = 1
       ELSE a.n * b.d < b.n * a.d

\* float division a / b with IEEE results for a zero divisor
FloatDiv(a, b) ==
    IF a.k \notin {"num"} \/ b.k \notin {"num"} THEN
        IF a.k = "na" \/ b.k = "na" \/ (a.k = "inf" /\ b.k = "inf") THEN NA
        ELSE IF a.k = "inf" THEN Inf(IF b.n < 0 THEN -a.n ELSE a.n)
        ELSE Num(0, 1)
    ELSE IF b.n = 0 THEN
        IF a.n = 0 THEN NA ELSE Inf(IF a.n < 0 THEN -1 ELSE 1)
    ELSE Num(a.n * b.d, a.d * b.n)

(***************************************************************************)
(* Text                                                                    *)
(***************************************************************************)
Digits == <<"0", "1", "2", "3", "4", "5", "6", "7", "8", "9">>

DigitSet == Range(Digits)

DigitOf == [c \in DigitSet |-> (CHOOSE i \in 1..10 : Digits[i] = c) - 1]

IsDigit(c) == c \in DigitSet

DigitVal(c) == DigitOf[c]

UpperChars ==
    <<"A", "B", "C", "D", "E", "F", "G", "H", "I", "J", "K", "L", "M", "N",
      "O", "P", "Q", "R", "S", "T", "U", "V", "W", "X", "Y", "Z",
      "Á", "É", "Í", "Ó", "Ú", "Â", "Ê", "Ô", "Ã", "Õ", "Ç">>

LowerChars ==
    <<"a", "b", "c", "d", "e", "f", "g", "h", "i", "j", "k", "l", "m", "n",
      "o", "p", "q", "r", "s", "t", "u", "v", "w", "x", "y", "z",
      "á", "é", "í", "ó", "ú", "â", "ê", "ô", "ã", "õ", "ç">>

UpperSet == Range(UpperChars)

LowerOf ==
    [c \in UpperSet |->
        LowerChars[CHOOSE i \in 1..Len(UpperChars) : UpperChars[i] = c]]

\* str.lower() on one character
LowerChar(c) == IF c \in UpperSet THEN LowerOf[c] ELSE c

SpaceChars == {" ", "\t", "\n"}

IsSpace(c) == c \in SpaceChars

\* the positions of the characters of s that are not white space
NonSpace(s) == {i \in 1..Len(s) : ~IsSpace(s[i])}

\* str.strip()
Strip(s) ==
    IF NonSpace(s) = {} THEN <<>>
    ELSE SubSeq(s, SetMin(NonSpace(s)), SetMax(NonSpace(s)))

\* re.sub(r"\s+", " ", s): every run of white space becomes one blank
CollapseSpaces(s) ==
    LET First(i) == ~IsSpace(s[i]) \/ i = 1 \/ ~IsSpace(s[i - 1])
        Out(i) == IF IsSpace(s[i]) THEN " " ELSE s[i]
        ps == Positions({i \in 1..Len(s) : First(i)})
    IN  AsTuple([j \in 1..Len(ps) |-> Out(ps[j])])

ToLower(s) == AsTuple([i \in 1..Len(s) |-> LowerChar(s[i])])

\* Python's  t in s  for strings
Contains(t, s) ==
    \E i \in 0..(Len(s) - Len(t)) : \A k \in 1..Len(t) : s[i + k] = t[k]

\* str.replace(old, new) for a one-character old and a new of length <= 1
RECURSIVE Replace(_, _, _)
Replace(s, old, new) ==
    IF s = <<>> THEN <<>>
    ELSE (IF s[1] = old THEN new ELSE <<s[1]>>) \o Replace(Tail(s), old, new)

RECURSIVE DigitsValue(_)
DigitsValue(s) ==
    IF s = <<>> THEN 0
    ELSE 10 * DigitsValue(SubSeq(s, 1, Len(s) - 1)) + DigitVal(s[Len(s)])

_norm(s) == ToLower(Strip(CollapseSpaces(s)))

(***************************************************************************)
(* Names used by the code                                                  *)
(***************************************************************************)
None == <<>>

TOK_munic == <<"m","u","n","i","c">>
TOK_codigo_acc == <<"c","ó","d","i","g","o">>
TOK_codigo == <<"c","o","d","i","g","o">>
TOK_territ == <<"t","e","r","r","i","t">>
TOK_ano == <<"a","n","o">>
TOK_mes_acc == <<"m","ê","s">>
TOK_mes == <<"m","e","s">>
TOK_periodo_acc == <<"p","e","r","í","o","d","o">>
TOK_periodo == <<"p","e","r","i","o","d","o">>
CodeTokens == <<TOK_codigo_acc, TOK_codigo>>

COL_V == <<"V">>
COL_value == <<"_","_","v","a","l","u","e","_","_">>
code_muni == <<"c","o","d","e","_","m","u","n","i">>
municipio == <<"m","u","n","i","c","i","p","i","o">>
ano == <<"a","n","o">>
id_municipio == <<"i","d","_","m","u","n","i","c","i","p","i","o">>
pib == <<"p","i","b">>
pop == <<"p","o","p">>
area == <<"a","r","e","a">>
pib_pc == <<"p","i","b","_","p","c">>
pib_km2 == <<"p","i","b","_","k","m","2">>
SUF_none == <<>>
SUF_pop == <<"_","p","o","p">>
SUF_x == <<"_","x">>
SUF_y == <<"_","y">>

(***************************************************************************)
(* pandas objects.  A DataFrame is [columns, index, data]: the column      *)
(* names, the row labels and the rows (each a tuple of cells, one per      *)
(* column).  A Series is [index, values].                                  *)
(***************************************************************************)
EmptyFrame == [columns |-> <<>>, index |-> <<>>, data |-> <<>>]

RangeIndex(n) == AsTuple([i \in 1..n |-> i - 1])

\* pd.Series(values): a fresh Series gets the labels 0..n-1
NewSeries(values) == [index |-> RangeIndex(Len(values)), values |-> values]

HasColumn(df, c) == \E i \in 1..Len(df.columns) : df.columns[i] = c

ColPos(df, c) == SetMin({i \in 1..Len(df.columns) : df.columns[i] = c})

\* df[c]
GetCol(df, c) ==
    [index |-> df.index,
     values |-> AsTuple([i \in 1..Len(df.data) |-> df.data[i][ColPos(df, c)]])]

\* the rows at the given positions, labels kept
TakeRows(df, ps) ==
    [columns |-> df.columns,
     index |-> AsTuple([j \in 1..Len(ps) |-> df.index[ps[j]]]),
     data |-> AsTuple([j \in 1..Len(ps) |-> df.data[ps[j]]])]

\* df.loc[mask] for a boolean Series on the same labels
Loc(df, mask) ==
    LET Keep(i) == mask.values[i]
    IN  TakeRows(df, Positions({i \in 1..Len(df.data) : Keep(i)}))

\* Series.reindex(index): the value at each label, NaN where the label is absent
Reindex(series, index) ==
    AsTuple([j \in 1..Len(index) |->
        LET hits == {i \in 1..Len(series.index) : series.index[i] = index[j]}
        IN  IF hits = {} THEN NA ELSE series.values[SetMin(hits)]])

\* df[c] = series.  An index-less frame takes the labels of the first
\* non-empty Series it is given; later Series are aligned on the labels.
SetItem(df, c, series) ==
    LET adopt == Len(df.index) = 0 /\ Len(series.values) > 0
        index == IF adopt THEN series.index ELSE df.index
        old == IF adopt
               THEN AsTuple([j \in 1..Len(index) |-> AsTuple([q \in 1..Len(df.columns) |-> NA])])
               ELSE df.data
        vals == Reindex(series, index)
    IN  IF HasColumn(df, c)
        THEN [columns |-> df.columns,
              index |-> index,
              data |-> AsTuple([j \in 1..Len(index) |->
                          [old[j] EXCEPT ![ColPos(df, c)] = vals[j]]])]
        ELSE [columns |-> Append(df.columns, c),
              index |-> index,
              data |-> AsTuple([j \in 1..Len(index) |-> Append(old[j], vals[j])])]

(***************************************************************************)
(* Numeric parsing                                                         *)
(***************************************************************************)
\* The float parser behind pd.to_numeric on one text: an optional sign,
\* digits, at most one "." and digits, at least one digit in all.  Any other
\* text of the cells modelled here is unparsable.
ParseNumber(s) ==
    LET signed == s # <<>> /\ s[1] \in {"-", "+"}
        body == IF signed THEN Tail(s) ELSE s
        IsDot(i) == body[i] = "."
        dots == Positions({i \in 1..Len(body) : IsDot(i)})
        ip == IF dots = <<>> THEN body ELSE SubSeq(body, 1, dots[1] - 1)
        fp == IF dots = <<>> THEN <<>> ELSE SubSeq(body, dots[1] + 1, Len(body))
        sg == IF signed /\ s[1] = "-" THEN -1 ELSE 1
    IN  IF /\ Len(dots) <= 1
           /\ Len(ip) + Len(fp) >= 1
           /\ \A i \in 1..Len(ip) : IsDigit(ip[i])
           /\ \A i \in 1..Len(fp) : IsDigit(fp[i])
        THEN Num(sg * DigitsValue(ip \o fp), Pow10(Len(fp)))
        ELSE NA

\* pd.to_numeric(series, errors="coerce"), element by element
to_numeric(series) ==
    [index |-> series.index,
     values |-> AsTuple([i \in 1..Len(series.values) |->
                    LET v == series.values[i]
                    IN  IF v.k = "str" THEN ParseNumber(v.s) ELSE v])]

\* series.astype(str); the cells of a SIDRA table are text already
astype_str(series) ==
    [index |-> series.index,
     values |-> AsTuple([i \in 1..Len(series.values) |-> Str(series.values[i].s)])]

\* series.str.replace(old, new, regex=False)
str_replace(series, old, new) ==
    [index |-> series.index,
     values |-> AsTuple([i \in 1..Len(series.values) |->
                    Str(Replace(series.values[i].s, old, new))])]

_coerce_numeric(series) ==
    to_numeric(str_replace(str_replace(astype_str(series), ".", <<>>), ",", <<".">>))

\* astype("Int64") succeeds only on integral (or missing) values: pandas
\* raises TypeError "cannot safely cast non-equivalent float64 to int64"
CanCastInt64(series) ==
    \A i \in 1..Len(series.values) :
        LET v == series.values[i]
        IN  v.k = "na" \/ (v.k = "num" /\ v.d = 1)

(***************************************************************************)
(* Column discovery                                                        *)
(***************************************************************************)
\* any_of = None (no second condition) is written <<>>
_find_col(df, must_contain, any_of) ==
    LET Ok(i) ==
            LET cn == _norm(df.columns[i])
            IN  /\ \A t \in Range(must_contain) : Contains(t, cn)
                /\ any_of = None \/ \E t \in Range(any_of) : Contains(t, cn)
        hits == {i \in 1..Len(df.columns) : Ok(i)}
    IN  IF hits = {} THEN None ELSE df.columns[SetMin(hits)]

\* the first column whose normalised name has the token and no "code" token
FirstNameCol(df, token) ==
    LET Ok(i) ==
            LET cn == _norm(df.columns[i])
            IN  /\ Contains(token, cn)
                /\ ~Contains(TOK_codigo_acc, cn)
                /\ ~Contains(TOK_codigo, cn)
        hits == {i \in 1..Len(df.columns) : Ok(i)}
    IN  IF hits = {} THEN None ELSE df.columns[SetMin(hits)]

\* Python's  a or b  on column names (None and "" are falsy)
OrElse(a, b) == IF a # None THEN a ELSE b

_drop_header_like_rows(df) ==
    IF HasColumn(df, COL_V)
    THEN LET v == _coerce_numeric(GetCol(df, COL_V))
         IN  Loc(df, [index |-> v.index,
                     values |-> AsTuple([i \in 1..Len(v.values) |-> notna(v.values[i])])])
    ELSE df

_extract_muni_cols(df) ==
    <<_find_col(df, <<TOK_munic>>, CodeTokens), FirstNameCol(df, TOK_munic)>>

_extract_time_col(df) ==
    LET year == OrElse(_find_col(df, <<TOK_ano>>, CodeTokens),
                       _find_col(df, <<TOK_ano>>, None))
        mes == OrElse(_find_col(df, <<TOK_mes_acc>>, None),
                      _find_col(df, <<TOK_mes>>, None))
        per == OrElse(_find_col(df, <<TOK_periodo_acc>>, None),
                      _find_col(df, <<TOK_periodo>>, None))
    IN  IF year # None THEN year ELSE IF mes # None THEN mes ELSE per

(***************************************************************************)
(* Results of a call: a returned frame, or a raised exception              *)
(***************************************************************************)
Ok(df) == [tag |-> "ok", exc |-> "", value |-> df]

Raise(e) == [tag |-> "raise", exc |-> e, value |-> EmptyFrame]

(***************************************************************************)
(* normalize_sidra_table                                                   *)
(***************************************************************************)
\* a variant of the test of line 113 that accepts the name in either case
ValueColumnAbsent_AnyCase(df) ==
    ~\E i \in 1..Len(df.columns) : ToLower(df.columns[i]) = ToLower(COL_V)

\* the test of line 113
ValueColumnAbsent(df) == ~HasColumn(df, COL_V)

\* re.match(r"^D\d+C$", c) or re.match(r"^D\d+N$", c)
IsDimCol(c) ==
    /\ Len(c) >= 3
    /\ c[1] = "D"
    /\ c[Len(c)] \in {"C", "N"}
    /\ \A i \in 2..(Len(c) - 1) : IsDigit(c[i])

\* a variant reading of the code and time columns that applies the
\* separator rule of _coerce_numeric first
KeyNumeric_Coerced(series) == _coerce_numeric(series)

\* the numeric reading of the code and time columns (lines 121, 126, 143)
KeyNumeric(series) == to_numeric(series)

\* pd.Series([fill] * len(df)): labelled 0..len(df)-1 whatever df's labels are
Filled(df, fill) == NewSeries(AsTuple([i \in 1..Len(df.data) |-> fill]))

\* the loops of lines 152-157: out[c] = df[c] for every dimension column
RECURSIVE CopyExtraDims(_, _, _)
CopyExtraDims(out, df, i) ==
    IF i > Len(df.columns) THEN out
    ELSE CopyExtraDims(IF IsDimCol(df.columns[i])
                       THEN SetItem(out, df.columns[i], GetCol(df, df.columns[i]))
                       ELSE out,
                       df, i + 1)

\* lines 150-157
ExtraDims(out, df, keep_extra_dims) ==
    IF keep_extra_dims THEN CopyExtraDims(out, df, 1) ELSE out

\* out.loc[out[c].notna()]   (line 160)
DropMissing(df, c) ==
    LET Keep(j) == notna(df.data[j][ColPos(df, c)])
    IN  TakeRows(df, Positions({i \in 1..Len(df.data) : Keep(i)}))

\* the column the codes are read from: lines 120-126
CodeCol(df, muni_code_col) ==
    IF muni_code_col # None THEN muni_code_col
    ELSE _find_col(df, <<TOK_territ>>, CodeTokens)

\* the column the names are read from: lines 130-138
NameCol(df, muni_name_col) ==
    IF muni_name_col # None THEN muni_name_col ELSE FirstNameCol(df, TOK_territ)

\* the code or year column before astype("Int64"): lines 120-128, 141-145
KeySeries(df, col) ==
    IF col # None THEN KeyNumeric(GetCol(df, col)) ELSE Filled(df, NA)

\* lines 130-139
NameSeries(df, col) ==
    IF col # None THEN astype_str(GetCol(df, col)) ELSE Filled(df, Str(<<>>))

\* lines 118-166, given the three Series: the casts to Int64, the assembly
\* of out column by column, the extra dimensions and the final filter
Assemble(df, code_num, name_str, time_num, value_name, keep_extra_dims) ==
    IF ~CanCastInt64(code_num) \/ ~CanCastInt64(time_num) THEN Raise("TypeError")
    ELSE Ok(DropMissing(
                ExtraDims(
                    SetItem(SetItem(SetItem(SetItem(EmptyFrame,
                                                    code_muni, code_num),
                                            municipio, name_str),
                                    ano, time_num),
                            value_name, GetCol(df, COL_value)),
                    df, keep_extra_dims),
                value_name))

\* lines 117-145, given the columns found
BuildTidy(df, muni_cols, time_col, value_name, keep_extra_dims) ==
    Assemble(df,
             KeySeries(df, CodeCol(df, muni_cols[1])),
             NameSeries(df, NameCol(df, muni_cols[2])),
             KeySeries(df, time_col),
             value_name, keep_extra_dims)

\* lines 106-166 on the frame left by _drop_header_like_rows; df["V"] raises
\* KeyError on a frame without that column
NormalizeRows(df, value_name, keep_extra_dims) ==
    IF ValueColumnAbsent(df) THEN Raise("ValueError")
    ELSE IF ~HasColumn(df, COL_V) THEN Raise("KeyError")
    ELSE BuildTidy(SetItem(df, COL_value, _coerce_numeric(GetCol(df, COL_V))),
                   _extract_muni_cols(df), _extract_time_col(df),
                   value_name, keep_extra_dims)

normalize_sidra_table(df_raw, value_name, keep_extra_dims) ==
    NormalizeRows(_drop_header_like_rows(df_raw), value_name, keep_extra_dims)

(***************************************************************************)
(* pandas operations used by build_panel                                   *)
(***************************************************************************)
\* df.rename(columns={old: new})
Rename(df, old, new) ==
    [df EXCEPT !.columns = AsTuple([i \in 1..Len(df.columns) |->
                               IF df.columns[i] = old THEN new ELSE df.columns[i]])]

\* df[[c1, c2, ...]]
SelectCols(df, cols) ==
    [columns |-> cols,
     index |-> df.index,
     data |-> AsTuple([j \in 1..Len(df.data) |->
                  AsTuple([q \in 1..Len(cols) |-> df.data[j][ColPos(df, cols[q])]])])]

\* df.dropna(subset=cols)
dropna(df, cols) ==
    LET Keep(j) == \A q \in 1..Len(cols) : notna(df.data[j][ColPos(df, cols[q])])
    IN  TakeRows(df, Positions({i \in 1..Len(df.data) : Keep(i)}))

\* the distinct values of S in ascending order
RECURSIVE Ascending(_)
Ascending(S) ==
    IF S = {} THEN <<>>
    ELSE LET m == CHOOSE x \in S : \A y \in S : ~NumLess(y, x)
         IN  <<m>> \o Ascending(S \ {m})

MaxOf(S) == CHOOSE x \in S : \A y \in S : ~NumLess(x, y)

\* df.groupby(key, as_index=False)[val].max(): one row per key, keys ascending
groupby_max(df, key, val) ==
    LET kp == ColPos(df, key)
        vp == ColPos(df, val)
        keys == Ascending({df.data[j][kp] : j \in 1..Len(df.data)})
        Group(kv) == {df.data[j][vp] : j \in {i \in 1..Len(df.data) : df.data[i][kp] = kv}}
    IN  [columns |-> <<key, val>>,
         index |-> RangeIndex(Len(keys)),
         data |-> AsTuple([g \in 1..Len(keys) |-> <<keys[g], MaxOf(Group(keys[g]))>>])]

\* the key of a row: its cells in the columns of `on`
KeyOf(df, j, on) == AsTuple([q \in 1..Len(on) |-> df.data[j][ColPos(df, on[q])]])

NonKeyCols(df, on) ==
    LET NotKey(i) == df.columns[i] \notin Range(on)
    IN  Positions({i \in 1..Len(df.columns) : NotKey(i)})

RECURSIVE MergeRows(_, _, _, _, _)
MergeRows(left, right, on, how, j) ==
    IF j > Len(left.data) THEN <<>>
    ELSE LET Match(i) == KeyOf(right, i, on) = KeyOf(left, j, on)
             ms == Positions({i \in 1..Len(right.data) : Match(i)})
             rk == NonKeyCols(right, on)
             Joined(i) == left.data[j] \o [q \in 1..Len(rk) |-> right.data[i][rk[q]]]
             here == IF ms # <<>> THEN AsTuple([m \in 1..Len(ms) |-> Joined(ms[m])])
                     ELSE IF how = "left"
                     THEN <<left.data[j] \o [q \in 1..Len(rk) |-> NA]>>
                     ELSE <<>>
         IN  here \o MergeRows(left, right, on, how, j + 1)

\* left.merge(right, on=on, how=how, suffixes=suffixes), how in {"inner", "left"}:
\* a non-key column name present on both sides gets its side's suffix
merge(left, right, on, how, suffixes) ==
    LET rk == NonKeyCols(right, on)
        LName(i) == LET c == left.columns[i]
                    IN  IF c \notin Range(on) /\ HasColumn(right, c)
                        THEN c \o suffixes[1] ELSE c
        RName(q) == LET c == right.columns[rk[q]]
                    IN  IF HasColumn(left, c) THEN c \o suffixes[2] ELSE c
        rows == MergeRows(left, right, on, how, 1)
    IN  [columns |-> [i \in 1..Len(left.columns) |-> LName(i)]
                     \o [q \in 1..Len(rk) |-> RName(q)],
         index |-> RangeIndex(Len(rows)),
         data |-> rows]

\* row a sorts strictly before row b under the keys by[k..], NaN last
RECURSIVE RowBefore(_, _, _, _, _, _)
RowBefore(df, a, b, by, ascending, k) ==
    IF k > Len(by) THEN FALSE
    ELSE LET va == df.data[a][ColPos(df, by[k])]
             vb == df.data[b][ColPos(df, by[k])]
         IN  IF va = vb THEN RowBefore(df, a, b, by, ascending, k + 1)
             ELSE IF va.k = "na" THEN FALSE
             ELSE IF vb.k = "na" THEN TRUE
             ELSE IF ascending[k] THEN NumLess(va, vb) ELSE NumLess(vb, va)

\* stable insertion of position j into the sorted sequence of positions ps
InsertSorted(df, ps, j, by, ascending) ==
    LET After(i) == RowBefore(df, j, ps[i], by, ascending, 1)
        later == {i \in 1..Len(ps) : After(i)}
        at == IF later = {} THEN Len(ps) + 1 ELSE SetMin(later)
    IN  SubSeq(ps, 1, at - 1) \o <<j>> \o SubSeq(ps, at, Len(ps))

RECURSIVE SortedPositions(_, _, _, _)
SortedPositions(df, n, by, ascending) ==
    IF n = 0 THEN <<>>
    ELSE InsertSorted(df, SortedPositions(df, n - 1, by, ascending), n, by, ascending)

\* df.sort_values(by, ascending=ascending)
sort_values(df, by, ascending) ==
    TakeRows(df, SortedPositions(df, Len(df.data), by, ascending))

\* df.reset_index(drop=True)
reset_index(df) == [df EXCEPT !.index = RangeIndex(Len(df.data))]

\* df[c] = values, a column computed from df row by row
Assign(df, c, values) ==
    SetItem(df, c, [index |-> df.index, values |-> values])

(***************************************************************************)
(* build_panel                                                             *)
(***************************************************************************)
\* a variant of lines 195-199 that keeps the smallest area of each code
AreaAgg_Min(area_df) ==
    LET src == dropna(area_df, <<code_muni>>)
        g == groupby_max(src, code_muni, area)
        Areas(c) == {src.data[j][ColPos(src, area)] :
                        j \in {i \in 1..Len(src.data) :
                                  src.data[i][ColPos(src, code_muni)] = c}}
        MinFor(c) == CHOOSE x \in Areas(c) : \A y \in Areas(c) : ~NumLess(y, x)
    IN  [g EXCEPT !.data = AsTuple([i \in 1..Len(g.data) |->
                                <<g.data[i][1], MinFor(g.data[i][1])>>])]

\* lines 195-199
AreaAgg(area_df) == groupby_max(dropna(area_df, <<code_muni>>), code_muni, area)

\* a variant of lines 202-210 that keeps every row of the value series
MergePibPop_Left(pib_df, pop_df) ==
    merge(dropna(pib_df, <<code_muni, ano>>), dropna(pop_df, <<code_muni, ano>>),
          <<code_muni, ano>>, "left", <<SUF_none, SUF_pop>>)

\* lines 202-210
MergePibPop(pib_df, pop_df) ==
    merge(dropna(pib_df, <<code_muni, ano>>), dropna(pop_df, <<code_muni, ano>>),
          <<code_muni, ano>>, "inner", <<SUF_none, SUF_pop>>)

\* line 213
MergeNames(panel, mun) ==
    merge(panel, SelectCols(mun, <<code_muni, municipio>>),
          <<code_muni>>, "left", <<SUF_x, SUF_y>>)

\* line 216
MergeArea(panel, area_agg) ==
    merge(panel, area_agg, <<code_muni>>, "left", <<SUF_x, SUF_y>>)

\* line 219
PibPc(panel) ==
    LET F(row) == FloatDiv(row[ColPos(panel, pib)], row[ColPos(panel, pop)])
    IN  Assign(panel, pib_pc, AsTuple([j \in 1..Len(panel.data) |-> F(panel.data[j])]))

\* a variant of line 220 without the guard on area
PibKm2_Unguarded(panel) ==
    LET F(row) == FloatDiv(row[ColPos(panel, pib)], row[ColPos(panel, area)])
    IN  Assign(panel, pib_km2, AsTuple([j \in 1..Len(panel.data) |-> F(panel.data[j])]))

\* line 220
PibKm2(panel) ==
    LET F(row) ==
            LET a == row[ColPos(panel, area)]
            IN  IF notna(a) /\ NumLess(IntVal(0), a)
                THEN FloatDiv(row[ColPos(panel, pib)], a)
                ELSE NA
    IN  Assign(panel, pib_km2, AsTuple([j \in 1..Len(panel.data) |-> F(panel.data[j])]))

\* a variant of line 223 that sorts both keys ascending
SortPanel_Ascending(panel) ==
    reset_index(sort_values(panel, <<ano, pib>>, <<TRUE, TRUE>>))

\* line 223
SortPanel(panel) ==
    reset_index(sort_values(panel, <<ano, pib>>, <<TRUE, FALSE>>))

\* lines 186-188: the reference keyed by code_muni; mun["code_muni"] raises
\* KeyError when the column is absent
KeyedReference(mun) ==
    IF ~HasColumn(mun, code_muni) THEN Raise("KeyError")
    ELSE IF ~CanCastInt64(to_numeric(GetCol(mun, code_muni))) THEN Raise("TypeError")
    ELSE Ok(SetItem(mun, code_muni, to_numeric(GetCol(mun, code_muni))))

MunReference(mun_uf) ==
    KeyedReference(IF HasColumn(mun_uf, id_municipio)
                   THEN Rename(mun_uf, id_municipio, code_muni) ELSE mun_uf)

\* the exception that aborts the build, if any of the four preparations of
\* lines 186-192 raised, in the order of the code
FirstRaise(mun_r, pib_r, pop_r, area_r) ==
    IF mun_r.tag = "raise" THEN mun_r
    ELSE IF pib_r.tag = "raise" THEN pib_r
    ELSE IF pop_r.tag = "raise" THEN pop_r
    ELSE area_r

(***************************************************************************)
(* Inputs                                                                  *)
(***************************************************************************)
\* the most rows the four inputs of build_panel hold together
MaxRows == 4

\* the most rows of the raw table given to normalize_sidra_table alone
MaxNormRows == 2

\* the subsets of 1..n with at most max elements
RECURSIVE Picks(_, _)
Picks(n, max) ==
    IF n = 0 \/ max = 0 THEN {{}}
    ELSE Picks(n - 1, max) \cup {S \cup {n} : S \in Picks(n - 1, max - 1)}

\* the elements of S that lie in lo+1..lo+n, as increasing positions 1..n
Sub(S, lo, n) ==
    LET In(i) == (lo + i) \in S
    IN  Positions({i \in 1..n : In(i)})

\* the increasing lists of at most max positions among 1..n
SubLists(n, max) == {Sub(S, 0, n) : S \in Picks(n, max)}

\* pd.DataFrame(raw): text cells, labels 0..n-1; cs and rs are the positions
\* of the columns and rows taken from the lists
RawTable(columns, rows, cs, rs) ==
    [columns |-> AsTuple([q \in 1..Len(cs) |-> columns[cs[q]]]),
     index |-> RangeIndex(Len(rs)),
     data |-> AsTuple([j \in 1..Len(rs) |-> AsTuple([q \in 1..Len(cs) |-> Str(rows[rs[j]][cs[q]])])])]

\* the columns a raw table may carry, in table order (a raw table of the
\* normaliser runs has any sub-list of them)
NormColumns ==
    <<<<"U","n","i","d","a","d","e"," ","T","e","r","r","i","t","o","r","i","a","l"," ","(","C","ó","d","i","g","o",")">>,
      <<"U","n","i","d","a","d","e"," "," ","T","e","r","r","i","t","o","r","i","a","l">>,
      <<"M","u","n","i","c","í","p","i","o"," ","(","C","ó","d","i","g","o",")">>,
      <<"M","u","n","i","c","í","p","i","o">>,
      <<"A","n","o">>,
      <<"M","ê","s">>,
      <<"D","1","C">>,
      <<"V">>,
      <<"v">>>>

\* the rows a raw table may carry, one cell per column of NormColumns: the
\* embedded header row, then data rows with plain, thousands-separated,
\* decimal-comma and unparsable cells
NormRows ==
    <<<<<<"C","ó","d">>, <<"U","F">>, <<"C","ó","d">>, <<"N","o","m","e">>, <<"A","n","o">>, <<"M","ê","s">>, <<"V","a","r">>, <<"V","a","l","o","r">>, <<"V","a","l","o","r">>>>,
      <<<<"5","2">>, <<"G","O">>, <<"1">>, <<"A">>, <<"2","0","2","0">>, <<"1">>, <<"3","7">>, <<"1",".","2","3","4",",","5","6">>, <<"7">>>>,
      <<<<"5","2">>, <<"G","O">>, <<"1",".","0","0","0">>, <<"B">>, <<"2","0","2","1">>, <<"2">>, <<"3","7">>, <<"1","2",",","5">>, <<"7">>>>,
      <<<<"5","2">>, <<"G","O">>, <<"5",".","2","0","0",".","0","5","0">>, <<"C">>, <<"2","0","2","1">>, <<"x">>, <<"3","7">>, <<"8","0">>, <<"7">>>>,
      <<<<"5",",","2">>, <<"G","O">>, <<"2">>, <<"D">>, <<"2",".","0","2","1">>, <<"3">>, <<"3","7">>, <<"5","0">>, <<"7">>>>,
      <<<<"5","2">>, <<"G","O">>, <<"1",".","5">>, <<"E">>, <<"2","0","2","0">>, <<"4">>, <<"3","7">>, <<"1","0","0">>, <<"7">>>>>>

\* the columns of the three raw tables given to build_panel
PanelColumns ==
    <<<<"M","u","n","i","c","í","p","i","o"," ","(","C","ó","d","i","g","o",")">>,
      <<"M","u","n","i","c","í","p","i","o">>,
      <<"A","n","o">>,
      <<"V">>>>

\* rows of the raw PIB table: the header row, then (code, name, year, value)
PibRows ==
    <<<<<<"C","ó","d">>, <<"N","o","m","e">>, <<"A","n","o">>, <<"V","a","l","o","r">>>>,
      <<<<"1">>, <<"A">>, <<"2","0","2","1">>, <<"5","0">>>>,
      <<<<"2">>, <<"B">>, <<"2","0","2","1">>, <<"8","0">>>>,
      <<<<"2">>, <<"B">>, <<"2","0","2","0">>, <<"1","0","0">>>>,
      <<<<"2">>, <<"B">>, <<"2","0","2","1">>, <<"5","0">>>>,
      <<<<"x">>, <<"C">>, <<"2","0","2","0">>, <<"8","0">>>>>>

\* rows of the raw population table
PopRows ==
    <<<<<<"1">>, <<"a">>, <<"2","0","2","1">>, <<"2","0">>>>,
      <<<<"2">>, <<"b">>, <<"2","0","2","1">>, <<"2","0">>>>,
      <<<<"2">>, <<"b">>, <<"2","0","2","0">>, <<"2","0">>>>,
      <<<<"2">>, <<"b">>, <<"2","0","2","0">>, <<"0">>>>,
      <<<<"3">>, <<"c">>, <<"x">>, <<"2","0">>>>,
      <<<<"3">>, <<"c">>, <<"2","0","2","0">>, <<"2","0">>>>>>

\* rows of the raw area table
AreaRows ==
    <<<<<<"1">>, <<"A">>, <<"2","0","2","2">>, <<"-","5">>>>,
      <<<<"1">>, <<"A">>, <<"2","0","2","2">>, <<"8">>>>,
      <<<<"2">>, <<"B">>, <<"2","0","2","2">>, <<"1","0">>>>,
      <<<<"2">>, <<"B">>, <<"2","0","1","0">>, <<"0">>>>,
      <<<<"x">>, <<"C">>, <<"2","0","2","2">>, <<"3">>>>>>

\* rows of the municipality reference built by get_municipios_uf:
\* (id_municipio, municipio); the last one lists code 2 a second time
MunRows ==
    <<<<IntVal(1), Str(<<"A","l","f","a">>)>>,
      <<IntVal(2), Str(<<"B","e","t","a">>)>>,
      <<IntVal(2), Str(<<"G","a","m","a">>)>>>>

MunTable(rs) ==
    [columns |-> <<id_municipio, municipio>>,
     index |-> RangeIndex(Len(rs)),
     data |-> AsTuple([j \in 1..Len(rs) |-> MunRows[rs[j]]])]

\* every column of a list, in order
AllOf(columns) == AsTuple([q \in 1..Len(columns) |-> q])

\* a raw table of build_panel: every column, the rows at positions rs
PanelTable(rows, rs) == RawTable(PanelColumns, rows, AllOf(PanelColumns), rs)

NoResult == [tag |-> "none", exc |-> "", value |-> EmptyFrame]

(***************************************************************************)
(* Specification of a call of build_panel                                  *)
(***************************************************************************)
NoLocals ==
    [mun |-> EmptyFrame, pib |-> EmptyFrame, pop |-> EmptyFrame,
     area |-> EmptyFrame, area_agg |-> EmptyFrame]

Init ==
    /\ \E S \in Picks(Len(PibRows) + Len(PopRows) + Len(AreaRows) + Len(MunRows),
                      MaxRows) :
            args = [pib_raw |-> PanelTable(PibRows, Sub(S, 0, Len(PibRows))),
                    pop_raw |-> PanelTable(PopRows, Sub(S, Len(PibRows), Len(PopRows))),
                    area_raw |-> PanelTable(AreaRows,
                                            Sub(S, Len(PibRows) + Len(PopRows),
                                                Len(AreaRows))),
                    mun_uf |-> MunTable(Sub(S, Len(PibRows) + Len(PopRows)
                                                  + Len(AreaRows), Len(MunRows)))]
    /\ pc = "call"
    /\ locals = NoLocals
    /\ ret = NoResult

\* the end of lines 186-192: an exception ends the call, else the four
\* frames are the locals mun, pib, pop and area
Prepared(mun_r, pib_r, pop_r, area_r) ==
    IF FirstRaise(mun_r, pib_r, pop_r, area_r).tag = "raise"
    THEN /\ ret' = FirstRaise(mun_r, pib_r, pop_r, area_r)
         /\ pc' = "done"
         /\ UNCHANGED locals
    ELSE /\ locals' = [locals EXCEPT !.mun = mun_r.value, !.pib = pib_r.value,
                                     !.pop = pop_r.value, !.area = area_r.value]
         /\ pc' = "aggregate"
         /\ UNCHANGED ret

\* lines 186-192
Prepare ==
    /\ pc = "call"
    /\ Prepared(MunReference(args.mun_uf),
                normalize_sidra_table(args.pib_raw, pib, FALSE),
                normalize_sidra_table(args.pop_raw, pop, FALSE),
                normalize_sidra_table(args.area_raw, area, FALSE))
    /\ UNCHANGED args

\* lines 194-199
Aggregate ==
    /\ pc = "aggregate"
    /\ locals' = [locals EXCEPT !.area_agg = AreaAgg(locals.area)]
    /\ pc' = "join"
    /\ UNCHANGED <<args, ret>>

\* lines 201-225
Join ==
    /\ pc = "join"
    /\ ret' = Ok(SortPanel(PibKm2(PibPc(
                    MergeArea(MergeNames(MergePibPop(locals.pib, locals.pop),
                                         locals.mun),
                              locals.area_agg)))))
    /\ pc' = "done"
    /\ UNCHANGED <<args, locals>>

build_panel == Prepare \/ Aggregate \/ Join

Next == build_panel

Spec == Init /\ [][Next]_vars

(***************************************************************************)
(* Specification of a call of normalize_sidra_table                        *)
(***************************************************************************)
NormInit ==
    /\ \E cs \in SubLists(Len(NormColumns), Len(NormColumns)),
          rs \in SubLists(Len(NormRows), MaxNormRows),
          keep \in BOOLEAN :
            args = [df_raw |-> RawTable(NormColumns, NormRows, cs, rs),
                    value_name |-> pib,
                    keep_extra_dims |-> keep]
    /\ pc = "call"
    /\ locals = NoLocals
    /\ ret = NoResult

Normalize ==
    /\ pc = "call"
    /\ ret' = normalize_sidra_table(args.df_raw, args.value_name, args.keep_extra_dims)
    /\ pc' = "done"
    /\ UNCHANGED <<args, locals>>

NormNext == Normalize

SpecNorm == NormInit /\ [][NormNext]_vars

(***************************************************************************)
(* Properties of normalize_sidra_table (specification SpecNorm)            *)
(***************************************************************************)
COL_MunicipioCodigo == NormColumns[3]

COL_Ano == NormColumns[5]

COL_v == NormColumns[9]

\* the cell of a frame at row position j, column c
Cell(df, j, c) == df.data[j][ColPos(df, c)]

\* the text of the raw table at label l, column c (raw labels are 0..n-1)
RawText(l, c) == args.df_raw.data[l + 1][ColPos(args.df_raw, c)].s

\* the coercion rule on one text: remove ".", replace "," by ".", parse
CoercionRule(s) == ParseNumber(Replace(Replace(s, ".", <<>>), ",", <<".">>))

CountChar(s, c) == Cardinality({i \in 1..Len(s) : s[i] = c})

AllDigits(s) == s # <<>> /\ \A i \in 1..Len(s) : IsDigit(s[i])

Returned == pc = "done" /\ ret.tag = "ok"

\* C1: a raw table with no column named exactly "V" makes
\* normalize_sidra_table raise the value-column-absent error (ValueError),
\* whatever other columns it has, and no tidy table is returned.
C1_NoValueColumnRaises ==
    (pc = "done" /\ ~HasColumn(args.df_raw, COL_V))
        => (ret.tag = "raise" /\ ret.exc = "ValueError" /\ ret.value = EmptyFrame)

\* a table with a lower-case "v", a municipality code and a year column and
\* at least one row, but no "V", was rejected
C1_Witness ==
    /\ pc = "done"
    /\ ~HasColumn(args.df_raw, COL_V)
    /\ HasColumn(args.df_raw, COL_v)
    /\ HasColumn(args.df_raw, COL_MunicipioCodigo)
    /\ HasColumn(args.df_raw, COL_Ano)
    /\ Len(args.df_raw.data) > 0
    /\ ret.tag = "raise"
    /\ ret.exc = "ValueError"

\* C2: every raw table that has a "V" column is normalised without an
\* exception, whatever its code, name and time columns hold.
C2_ValueColumnSuffices ==
    (pc = "done" /\ HasColumn(args.df_raw, COL_V)) => ret.tag = "ok"

\* C3: every output row has a value, and the rows of the output are exactly
\* the raw rows whose "V" parses under the coercion rule.
C3_RowsKeptIffValueParses ==
    Returned =>
        /\ \A j \in 1..Len(ret.value.data) :
                notna(Cell(ret.value, j, args.value_name))
        /\ Range(ret.value.index)
             = {l \in Range(args.df_raw.index) :
                    notna(CoercionRule(RawText(l, COL_V)))}

PlainKey(v, t) ==
    /\ (CountChar(t, ",") > 0 \/ CountChar(t, ".") >= 2) => v = NA
    /\ AllDigits(t) => v = IntVal(DigitsValue(t))
    /\ (CountChar(t, ",") = 0 /\ CountChar(t, ".") = 1
          /\ AllDigits(Replace(t, ".", <<>>)))
         => /\ v.k = "num"
            /\ v.n * Pow10(Len(t) - ColPos([columns |-> t], "."))
                 = v.d * DigitsValue(Replace(t, ".", <<>>))

KeyAt(df, j) == <<Cell(df, j, code_muni), Cell(df, j, ano)>>

PanelKeys(df) == {KeyAt(df, j) : j \in 1..Len(df.data)}

NonNullKeys(df) == {k \in PanelKeys(df) : notna(k[1]) /\ notna(k[2])}

\* the number of rows of df with key k
CountKey(df, k) == Cardinality({j \in 1..Len(df.data) : KeyAt(df, j) = k})

\* the keys present, non-null, in both normalised series
CommonKeys == NonNullKeys(locals.pib) \cap NonNullKeys(locals.pop)

\* C4: the keys of the panel are exactly the non-null (code_muni, ano) keys
\* that the normalised value series and the normalised population series
\* have in common.
C4_KeysAreIntersection ==
    Returned => PanelKeys(ret.value) = CommonKeys

\* a non-empty panel built from a value series with a key the population
\* series lacks and with a row of null code
C4_Witness ==
    /\ Returned
    /\ ret.value.data # <<>>
    /\ NonNullKeys(locals.pib) \ NonNullKeys(locals.pop) # {}
    /\ \E j \in 1..Len(locals.pib.data) : ~notna(Cell(locals.pib, j, code_muni))

\* C5: the panel has exactly one row for every key the two series have in
\* common, also when a raw table carries several rows for one municipality
\* and year or the reference lists a code twice.
C5_OneRowPerKey ==
    Returned => \A k \in CommonKeys : CountKey(ret.value, k) = 1

\* the name the reference gives to code c
ReferenceNames(c) ==
    {Cell(locals.mun, i, municipio) :
        i \in {q \in 1..Len(locals.mun.data) : Cell(locals.mun, q, code_muni) = c}}

\* C6: the panel has a column named municipio that holds, for every row
\* whose code is in the reference, the reference's name for that code.
C6_MunicipioIsReferenceName ==
    Returned =>
        /\ HasColumn(ret.value, municipio)
        /\ \A j \in 1..Len(ret.value.data) :
                ReferenceNames(Cell(ret.value, j, code_muni)) # {}
                    => Cell(ret.value, j, municipio)
                         \in ReferenceNames(Cell(ret.value, j, code_muni))

\* the derived metrics c = pib_pc and k = pib_km2 of a row with value v,
\* population p and area a; x = v / y is stated as x * y = v on fractions
DerivedOk(v, p, a, c, k) ==
    /\ (a.k = "num" /\ a.n > 0)
         => (k.k = "num" /\ k.n * a.n * v.d = v.n * a.d * k.d)
    /\ ~(a.k = "num" /\ a.n > 0) => k = NA
    /\ (p.k = "num" /\ p.n # 0)
         => (c.k = "num" /\ c.n * p.n * v.d = v.n * p.d * c.d)
    /\ (v = IntVal(100) /\ p = IntVal(20)) => c = IntVal(5)
    /\ (v = IntVal(100) /\ a = IntVal(10)) => k = IntVal(10)

\* C7: in every panel row pib_km2 is value / area when area is known and
\* strictly positive and missing otherwise, and pib_pc is value / pop
\* whatever the area.
C7_DerivedMetrics ==
    Returned =>
        \A j \in 1..Len(ret.value.data) :
            DerivedOk(Cell(ret.value, j, pib), Cell(ret.value, j, pop),
                      Cell(ret.value, j, area), Cell(ret.value, j, pib_pc),
                      Cell(ret.value, j, pib_km2))

\* the row value=100, pop=20, area=10 with pib_pc 5 and pib_km2 10
C7_Witness ==
    /\ Returned
    /\ \E j \in 1..Len(ret.value.data) :
            /\ Cell(ret.value, j, pib) = IntVal(100)
            /\ Cell(ret.value, j, pop) = IntVal(20)
            /\ Cell(ret.value, j, area) = IntVal(10)
            /\ Cell(ret.value, j, pib_pc) = IntVal(5)
            /\ Cell(ret.value, j, pib_km2) = IntVal(10)

\* C8: of any two consecutive panel rows the first has the smaller year, or
\* the same year and a value at least the second's.
C8_Ordered ==
    Returned =>
        \A j \in 1..(Len(ret.value.data) - 1) :
            \/ NumLess(Cell(ret.value, j, ano), Cell(ret.value, j + 1, ano))
            \/ /\ Cell(ret.value, j, ano) = Cell(ret.value, j + 1, ano)
               /\ ~NumLess(Cell(ret.value, j, pib), Cell(ret.value, j + 1, pib))

\* two rows of one year that the value series carried in ascending order of
\* value come out in descending order
C8_Witness ==
    /\ Returned
    /\ Len(ret.value.data) >= 2
    /\ Len(locals.pib.data) >= 2
    /\ Cell(locals.pib, 1, ano) = Cell(locals.pib, 2, ano)
    /\ NumLess(Cell(locals.pib, 1, pib), Cell(locals.pib, 2, pib))
    /\ Cell(ret.value, 1, ano) = Cell(ret.value, 2, ano)
    /\ Cell(ret.value, 1, pib) = Cell(locals.pib, 2, pib)
    /\ Cell(ret.value, 2, pib) = Cell(locals.pib, 1, pib)

\* the areas the normalised area table holds for code c
AreasOf(c) ==
    {Cell(locals.area, j, area) :
        j \in {i \in 1..Len(locals.area.data) : Cell(locals.area, i, code_muni) = c}}

\* the aggregated table: one row per non-null code, with the largest area
AggregateOk ==
    /\ \A i, j \in 1..Len(locals.area_agg.data) :
            i # j => Cell(locals.area_agg, i, code_muni)
                       # Cell(locals.area_agg, j, code_muni)
    /\ {Cell(locals.area_agg, i, code_muni) : i \in 1..Len(locals.area_agg.data)}
         = {Cell(locals.area, j, code_muni) : j \in 1..Len(locals.area.data)} \ {NA}
    /\ \A i \in 1..Len(locals.area_agg.data) :
            /\ Cell(locals.area_agg, i, area)
                 \in AreasOf(Cell(locals.area_agg, i, code_muni))
            /\ \A x \in AreasOf(Cell(locals.area_agg, i, code_muni)) :
                    ~NumLess(Cell(locals.area_agg, i, area), x)

\* the area of panel row j: the aggregate of its code, missing without one
PanelAreaOk(j) ==
    \/ /\ AreasOf(Cell(ret.value, j, code_muni)) = {}
       /\ Cell(ret.value, j, area) = NA
    \/ \E i \in 1..Len(locals.area_agg.data) :
            /\ Cell(locals.area_agg, i, code_muni) = Cell(ret.value, j, code_muni)
            /\ Cell(locals.area_agg, i, area) = Cell(ret.value, j, area)

\* C9: the aggregated area table has exactly one row per non-null code of
\* the normalised area table, holding the maximum area of that code; every
\* panel row carries that maximum, or a missing area when its code has none.
C9_AreaIsMaxPerCode ==
    /\ pc = "join" => AggregateOk
    /\ Returned => (AggregateOk /\ \A j \in 1..Len(ret.value.data) : PanelAreaOk(j))

\* a panel row whose code has two area rows, the smaller one first,
\* carries the larger
C9_Witness ==
    /\ Returned
    /\ \E j \in 1..Len(ret.value.data) :
            /\ Cardinality(AreasOf(Cell(ret.value, j, code_muni))) = 2
            /\ Cell(ret.value, j, area) = IntVal(8)
            /\ IntVal(-5) \in AreasOf(Cell(ret.value, j, code_muni))

====
